---- MODULE Spec2Model ----
(***************************************************************************)
(* The crate facade of rustwide (src/crates/mod.rs): a closed set of crate *)
(* sources (registry, git, local) behind fetch / purge_from_cache /        *)
(* git_commit / copy_source_to.  The facade is translated from mod.rs; the *)
(* three backends (registry.rs, git.rs, local.rs) and utils::remove_dir_all*)
(* follow their documented contracts.                                      *)
(***************************************************************************)
EXTENDS Integers, FiniteSets, Sequences, TLC

\* Highest revision the git remote can advance to (revisions are 0..MaxRev).
MaxRev == 2

----------------------------------------------------------------------------
\* Crate descriptors: the constructors of mod.rs.

registry(alt, name, version) ==
    [kind |-> "Registry", name |-> name, source |-> alt, selector |-> version]

crates_io(name, version) ==
    [kind |-> "Registry", name |-> name, source |-> "crates.io", selector |-> version]

git(url, name) ==
    [kind |-> "Git", name |-> name, source |-> url, selector |-> "default"]

git_branch(url, name, branch) ==
    [kind |-> "Git", name |-> name, source |-> url, selector |-> branch]

local(path, name) ==
    [kind |-> "Local", name |-> name, source |-> path, selector |-> ""]

name(p) == p.name

RegistryCrate == crates_io("left-pad", "1.0.0")
GitCrate      == git("https://example.com/repo.git", "repo")
LocalCrate    == local("/work/dir", "dir")

Crates == {RegistryCrate, GitCrate, LocalCrate}

NoCrate == [kind |-> "None", name |-> "", source |-> "", selector |-> ""]

\* Which backend implementation a crate dispatches to.
as_trait_localAsRegistry(p) ==
    CASE p.kind = "Registry" -> "RegistryCrate"
      [] p.kind = "Git"      -> "GitRepo"
      [] p.kind = "Local"    -> "RegistryCrate"

as_trait_gitAsRegistry(p) ==
    CASE p.kind = "Registry" -> "RegistryCrate"
      [] p.kind = "Git"      -> "RegistryCrate"
      [] p.kind = "Local"    -> "Local"

as_trait(p) ==
    CASE p.kind = "Registry" -> "RegistryCrate"
      [] p.kind = "Git"      -> "GitRepo"
      [] p.kind = "Local"    -> "Local"

----------------------------------------------------------------------------
\* Files and directories.

Revs == 0..MaxRev

\* The source tree of crate p at revision r: a manifest and a source file.
Tree(p, r) ==
    { [name |-> "Cargo.toml", data |-> <<p.name, r>>],
      [name |-> p.name,       data |-> <<p.name, r>>] }

Stale == [name |-> "stale.txt", data |-> <<"stale", 0>>]

Absent == [exists |-> FALSE, files |-> {}]

Dir(files) == [exists |-> TRUE, files |-> files]

\* Writing the files `tree` into directory d: same-named files are replaced,
\* the others stay.
Overlay(d, tree) ==
    Dir(tree \cup {f \in d.files : \A g \in tree : g.name # f.name})

\* Cache entries.
NoEntry      == [state |-> "absent",  rev |-> 0]
CorruptEntry == [state |-> "corrupt", rev |-> 0]
Entry(r)     == [state |-> "ok",      rev |-> r]

None == -1

Errors == {"NotCached", "CacheCorrupt", "NotFound", "Transport", "Io", "RemoveFailed"}

VARIABLES
    cache,      \* workspace cache: crate -> cache entry
    remote,     \* head revision of the git remote
    localSrc,   \* whether the local crate's source path exists and is readable
    dest,       \* the destination directory of copy_source_to
    fetched,    \* git crate -> the remote's revision at its last successful fetch
    last        \* the last facade call and what it returned

vars == <<cache, remote, localSrc, dest, fetched, last>>

\* What the upstream source of p currently offers.
Upstream(p) == IF p.kind = "Git" THEN remote ELSE 0

----------------------------------------------------------------------------
\* Outcomes the environment decides: the network during a fetch, a recursive
\* directory removal, and the writes of a copy.

Nets == {"ok", "Transport", "NotFound"}

\* A removal either succeeds, or fails with the directory still there: holding
\* every file (nothing deleted), only its manifest, or no file at all.
RemoveOutcomes(d) ==
    {[ok |-> TRUE, left |-> {}]}
    \cup IF d.exists
         THEN {[ok |-> FALSE, left |-> s] :
                 s \in {d.files, {f \in d.files : f.name = "Cargo.toml"}, {}}}
         ELSE {}

\* A purge's removal: ok, failed leaving the entry whole, failed leaving it partial.
PurgeOutcomes == {[ok |-> TRUE, partial |-> FALSE],
                  [ok |-> FALSE, partial |-> FALSE],
                  [ok |-> FALSE, partial |-> TRUE]}

\* A copy's writes: all done, failed before the first file, failed after the manifest.
IoOutcomes == {[ok |-> TRUE, partial |-> FALSE],
               [ok |-> FALSE, partial |-> FALSE],
               [ok |-> FALSE, partial |-> TRUE]}

\* utils::remove_dir_all on an existing directory d.
remove_dir_all(d, rm) ==
    IF rm.ok THEN [res |-> "Ok", dir |-> Absent]
             ELSE [res |-> "RemoveFailed", dir |-> Dir(rm.left)]

\* Copying `tree` into d under write outcome io.
WriteTree(d, tree, io) ==
    IF io.ok THEN [res |-> "Ok", dir |-> Overlay(d, tree)]
    ELSE [res |-> "Io",
          dir |-> Overlay(d, IF io.partial THEN {f \in tree : f.name = "Cargo.toml"}
                                           ELSE {})]

----------------------------------------------------------------------------
\* The backends behind CrateTrait.

\* Registry: download the published artifact unless the key is already cached.
RegistryFetch(p, net) ==
    IF cache[p].state # "absent" THEN [res |-> "Ok", entry |-> cache[p]]
    ELSE IF net = "ok" THEN [res |-> "Ok", entry |-> Entry(Upstream(p))]
    ELSE [res |-> net, entry |-> cache[p]]

\* Git: clone if absent, otherwise update the clone to the remote's head.
GitFetch(p, net) ==
    IF net = "ok" THEN [res |-> "Ok", entry |-> Entry(Upstream(p))]
    ELSE [res |-> net, entry |-> cache[p]]

\* Local: nothing to fetch.
LocalFetch(p, net) == [res |-> "Ok", entry |-> cache[p]]

\* Registry and git: delete the cache entry if there is one.
CachePurge(p, rm) ==
    IF cache[p].state = "absent" THEN [res |-> "Ok", entry |-> cache[p]]
    ELSE IF rm.ok THEN [res |-> "Ok", entry |-> NoEntry]
    ELSE [res |-> "RemoveFailed",
          entry |-> IF rm.partial THEN CorruptEntry ELSE cache[p]]

\* Local: nothing to purge.
LocalPurge(p, rm) == [res |-> "Ok", entry |-> cache[p]]

\* Registry and git: materialise the cached source tree into d.
CacheCopy(p, d, io) ==
    CASE cache[p].state = "absent"  -> [res |-> "NotCached", dir |-> d]
      [] cache[p].state = "corrupt" -> [res |-> "CacheCorrupt", dir |-> d]
      [] cache[p].state = "ok"      -> WriteTree(d, Tree(p, cache[p].rev), io)

\* Local: copy the directory at the crate's path into d.
LocalCopy(p, d, io) ==
    IF localSrc THEN WriteTree(d, Tree(p, 0), io)
                ELSE [res |-> "NotFound", dir |-> d]

\* GitRepo::git_commit: the commit of the cached clone, if it resolves.
GitRepoCommit(p) == IF cache[p].state = "ok" THEN cache[p].rev ELSE None

BackendFetch(b, p, net) ==
    CASE b = "RegistryCrate" -> RegistryFetch(p, net)
      [] b = "GitRepo"       -> GitFetch(p, net)
      [] b = "Local"         -> LocalFetch(p, net)

BackendPurge(b, p, rm) ==
    CASE b = "RegistryCrate" -> CachePurge(p, rm)
      [] b = "GitRepo"       -> CachePurge(p, rm)
      [] b = "Local"         -> LocalPurge(p, rm)

BackendCopy(b, p, d, io) ==
    CASE b = "RegistryCrate" -> CacheCopy(p, d, io)
      [] b = "GitRepo"       -> CacheCopy(p, d, io)
      [] b = "Local"         -> LocalCopy(p, d, io)

----------------------------------------------------------------------------
\* The facade: Crate::fetch, purge_from_cache, git_commit, copy_source_to.

fetch_evictIfCached(p, net) ==
    IF cache[p].state # "absent" THEN [res |-> "Ok", entry |-> NoEntry]
    ELSE BackendFetch(as_trait(p), p, net)

fetch(p, net) == BackendFetch(as_trait(p), p, net)

purge_from_cache_noDispatch(p, rm) == [res |-> "Ok", entry |-> cache[p]]

purge_from_cache_callsFetch(p, rm) == BackendFetch(as_trait(p), p, "ok")

purge_from_cache(p, rm) == BackendPurge(as_trait(p), p, rm)

git_commit_anyVariant(p) == GitRepoCommit(p)

git_commit(p) == IF p.kind = "Git" THEN GitRepoCommit(p) ELSE None

\* copy_source_to without the clean-up of an existing destination.
copy_source_to_noCleanup(p, rm, io) ==
    LET r == BackendCopy(as_trait(p), p, dest, io)
    IN  [res |-> r.res, dir |-> r.dir, removal |-> "skipped", dispatched |-> TRUE]

\* copy_source_to that drops the removal's error and carries on.
copy_source_to_ignoreRemoveError(p, rm, io) ==
    LET cleaned == IF dest.exists THEN remove_dir_all(dest, rm)
                                  ELSE [res |-> "Ok", dir |-> dest]
        r == BackendCopy(as_trait(p), p, cleaned.dir, io)
    IN  [res |-> r.res, dir |-> r.dir,
         removal |-> IF ~dest.exists THEN "skipped"
                     ELSE IF cleaned.res = "Ok" THEN "done" ELSE "failed",
         dispatched |-> TRUE]

\* copy_source_to that drops the backend's error.
copy_source_to_ignoreCopyError(p, rm, io) ==
    LET cleaned == IF dest.exists THEN remove_dir_all(dest, rm)
                                  ELSE [res |-> "Ok", dir |-> dest]
    IN  IF cleaned.res # "Ok"
        THEN [res |-> cleaned.res, dir |-> cleaned.dir,
              removal |-> "failed", dispatched |-> FALSE]
        ELSE LET r == BackendCopy(as_trait(p), p, cleaned.dir, io)
             IN  [res |-> "Ok", dir |-> r.dir,
                  removal |-> IF dest.exists THEN "done" ELSE "skipped",
                  dispatched |-> TRUE]

\* copy_source_to that clears the destination only once the copy is known to work.
copy_source_to_cleanAfterCheck(p, rm, io) ==
    LET probe == BackendCopy(as_trait(p), p, Absent, io)
        cleaned == IF dest.exists THEN remove_dir_all(dest, rm)
                                  ELSE [res |-> "Ok", dir |-> dest]
    IN  IF probe.res # "Ok"
        THEN [res |-> probe.res, dir |-> dest, removal |-> "skipped", dispatched |-> TRUE]
        ELSE IF cleaned.res # "Ok"
        THEN [res |-> cleaned.res, dir |-> cleaned.dir,
              removal |-> "failed", dispatched |-> FALSE]
        ELSE [res |-> "Ok", dir |-> probe.dir,
              removal |-> IF dest.exists THEN "done" ELSE "skipped",
              dispatched |-> TRUE]

copy_source_to(p, rm, io) ==
    LET cleaned == IF dest.exists THEN remove_dir_all(dest, rm)
                                  ELSE [res |-> "Ok", dir |-> dest]
    IN  IF cleaned.res # "Ok"
        THEN [res |-> cleaned.res, dir |-> cleaned.dir,
              removal |-> "failed", dispatched |-> FALSE]
        ELSE LET r == BackendCopy(as_trait(p), p, cleaned.dir, io)
             IN  [res |-> r.res, dir |-> r.dir,
                  removal |-> IF dest.exists THEN "done" ELSE "skipped",
                  dispatched |-> TRUE]

----------------------------------------------------------------------------
\* The record of the last call.

NoCall ==
    [op |-> "none", crate |-> NoCrate, res |-> "Ok", commit |-> None,
     removal |-> "none", dispatched |-> FALSE, follows |-> "other",
     foreign |-> FALSE, stale |-> FALSE]

\* How a call of op on p relates to the call before it.
Follows(op, p) ==
    IF last.crate = p /\ last.res = "Ok" /\ last.op = op THEN "same"
    ELSE IF last.crate = p /\ last.res = "Ok" /\ last.op = "purge_from_cache" THEN "purge"
    ELSE "other"

Call(op, p, res) == [NoCall EXCEPT !.op = op, !.crate = p, !.res = res]

----------------------------------------------------------------------------
\* Initial state and actions.

Init ==
    /\ cache = [p \in Crates |-> NoEntry]
    /\ remote = 0
    /\ localSrc \in BOOLEAN
    /\ dest = Absent
    /\ fetched = [p \in {c \in Crates : c.kind = "Git"} |-> None]
    /\ last = NoCall

Fetch(p, net) ==
    LET r == fetch(p, net)
    IN  /\ cache' = [cache EXCEPT ![p] = r.entry]
        /\ fetched' = IF r.res = "Ok" /\ p \in DOMAIN fetched
                       THEN [fetched EXCEPT ![p] = Upstream(p)]
                       ELSE fetched
        /\ last' = [Call("fetch", p, r.res) EXCEPT !.follows = Follows("fetch", p)]
        /\ UNCHANGED <<remote, localSrc, dest>>

PurgeFromCache(p, rm) ==
    LET r == purge_from_cache(p, rm)
    IN  /\ cache' = [cache EXCEPT ![p] = r.entry]
        /\ last' = [Call("purge_from_cache", p, r.res)
                       EXCEPT !.follows = Follows("purge_from_cache", p)]
        /\ UNCHANGED <<remote, localSrc, dest, fetched>>

GitCommit(p) ==
    /\ last' = [Call("git_commit", p, "Ok") EXCEPT !.commit = git_commit(p)]
    /\ UNCHANGED <<cache, remote, localSrc, dest, fetched>>

CopySourceTo(p, rm, io) ==
    LET r == copy_source_to(p, rm, io)
    IN  /\ dest' = r.dir
        /\ last' = [Call("copy_source_to", p, r.res)
                       EXCEPT !.removal = r.removal,
                              !.dispatched = r.dispatched,
                              !.foreign = (\E f \in dest.files :
                                              f # Stale /\ f.data[1] # p.name),
                              !.stale = (Stale \in dest.files)]
        /\ UNCHANGED <<cache, remote, localSrc, fetched>>

\* The environment: the git remote gains a commit.
RemoteAdvance ==
    /\ remote < MaxRev
    /\ remote' = remote + 1
    /\ last' = NoCall
    /\ UNCHANGED <<cache, localSrc, dest, fetched>>

\* The environment: the local source path appears or disappears.
LocalSrcToggle ==
    /\ localSrc' = ~localSrc
    /\ last' = NoCall
    /\ UNCHANGED <<cache, remote, dest, fetched>>

\* The environment: an unrelated file is dropped into the destination.
DropStaleFile ==
    /\ Stale \notin dest.files
    /\ dest' = Dir(dest.files \cup {Stale})
    /\ last' = NoCall
    /\ UNCHANGED <<cache, remote, localSrc, fetched>>

\* The environment: a cache entry is damaged on disk.
CorruptCacheEntry(p) ==
    /\ cache[p].state = "ok"
    /\ cache' = [cache EXCEPT ![p] = CorruptEntry]
    /\ last' = NoCall
    /\ UNCHANGED <<remote, localSrc, dest, fetched>>

Next ==
    \/ \E p \in Crates, net \in Nets : Fetch(p, net)
    \/ \E p \in Crates, rm \in PurgeOutcomes : PurgeFromCache(p, rm)
    \/ \E p \in Crates : GitCommit(p)
    \/ \E p \in Crates, rm \in RemoveOutcomes(dest), io \in IoOutcomes :
          CopySourceTo(p, rm, io)
    \/ RemoteAdvance
    \/ LocalSrcToggle
    \/ DropStaleFile
    \/ \E p \in Crates : CorruptCacheEntry(p)

Spec == Init /\ [][Next]_vars

----------------------------------------------------------------------------
\* Vocabulary of the properties.

Cached == {p \in Crates : p.kind \in {"Registry", "Git"}}

\* The tree a copy of p has to produce in the current state (empty: none).
Source(p) ==
    IF p.kind = "Local" THEN (IF localSrc THEN Tree(p, 0) ELSE {})
    ELSE IF cache[p].state = "ok" THEN Tree(p, cache[p].rev) ELSE {}

\* What a fetch into an empty cache leaves for p.
FreshEntry(p) == IF p.kind = "Local" THEN NoEntry ELSE Entry(Upstream(p))

\* The step is a call of op (the environment's steps reset `last`).
Called(op) == last'.op = op

\* The step is a call of op right after a successful call of op0 on the same crate.
CalledAfter(op0, op) ==
    /\ last.op = op0 /\ last.res = "Ok"
    /\ last'.op = op /\ last'.crate = last.crate

\* C1: after a successful copy_source_to the destination holds exactly the
\* copied crate's files: nothing of a crate staged there before, no stale.txt.
C1_CopyReplacesDestination ==
    (last.op = "copy_source_to" /\ last.res = "Ok")
        => /\ dest = Dir(Source(last.crate))
           /\ Source(last.crate) # {}
           /\ Stale \notin dest.files

C1_Witness ==
    /\ last.op = "copy_source_to" /\ last.res = "Ok"
    /\ last.foreign /\ last.stale

\* C2 as stated: a copy_source_to of a registry or git crate with no cache
\* entry returns the not-cached error.
C2_Original ==
    (/\ last.op = "copy_source_to"
     /\ last.crate \in Cached
     /\ cache[last.crate].state = "absent")
        => last.res = "NotCached"

\* C2 amended: a copy_source_to of a registry or git crate with no cache entry
\* never succeeds; it returns the not-cached error unless the removal of the
\* existing destination failed first, and then that removal's error.  A local
\* crate's copy never fails for want of a cache entry.
C2_UncachedCopyFails ==
    /\ (/\ last.op = "copy_source_to"
        /\ last.crate \in Cached
        /\ cache[last.crate].state = "absent")
           => /\ last.res \in {"NotCached", "RemoveFailed"}
              /\ (last.res = "RemoveFailed") <=> (last.removal = "failed")
    /\ (last.op = "copy_source_to" /\ last.crate.kind = "Local")
           => last.res \notin {"NotCached", "CacheCorrupt"}

C2_Witness ==
    /\ last.op = "copy_source_to" /\ last.res = "NotCached"
    /\ last.crate.kind = "Git"
    /\ fetched[last.crate] # None

\* C3: a successful fetch right after a successful fetch of the same crate
\* leaves the cache, and with it the result of every copy_source_to, as the
\* first fetch left them.
C3_FetchIdempotent ==
    [][ (CalledAfter("fetch", "fetch") /\ last'.res = "Ok")
          => /\ cache' = cache
             /\ \A p \in Crates, rm \in RemoveOutcomes(dest), io \in IoOutcomes :
                   copy_source_to(p, rm, io)' = copy_source_to(p, rm, io) ]_vars

C3_Witness ==
    /\ last.op = "fetch" /\ last.res = "Ok" /\ last.follows = "same"
    /\ last.crate \in Cached
    /\ cache[last.crate].state = "ok"

\* C4: a successful purge_from_cache leaves no cache entry, and a successful
\* fetch right after it leaves the entry a fetch into an empty cache leaves,
\* from which a copy_source_to whose filesystem steps succeed stages the
\* upstream tree.
C4_PurgeThenFetchIsFresh ==
    [][ \A p \in Crates :
        /\ (Called("purge_from_cache") /\ last'.crate = p /\ last'.res = "Ok")
            => cache'[p] = NoEntry
        /\ (CalledAfter("purge_from_cache", "fetch") /\ last'.crate = p
                /\ last'.res = "Ok")
            => /\ cache'[p] = FreshEntry(p)
               /\ p \in Cached =>
                    \A rm \in RemoveOutcomes(dest), io \in IoOutcomes :
                       (rm.ok /\ io.ok) =>
                          /\ copy_source_to(p, rm, io)'.res = "Ok"
                          /\ copy_source_to(p, rm, io)'.dir = Dir(Tree(p, Upstream(p)))
      ]_vars

C4_Witness ==
    /\ last.op = "fetch" /\ last.res = "Ok" /\ last.follows = "purge"
    /\ last.crate \in Cached

\* C5: purge_from_cache of a crate with no cache entry returns Ok and changes
\* nothing; so a purge right after a successful purge of the same crate
\* returns Ok and leaves the cache as it was.
C5_PurgeOfUncachedIsNoop ==
    [][ /\ (Called("purge_from_cache") /\ cache[last'.crate].state = "absent")
            => /\ last'.res = "Ok"
               /\ UNCHANGED <<cache, remote, localSrc, dest>>
        /\ CalledAfter("purge_from_cache", "purge_from_cache")
            => /\ last'.res = "Ok"
               /\ cache' = cache ]_vars

C5_Witness ==
    /\ last.op = "purge_from_cache" /\ last.res = "Ok" /\ last.follows = "same"
    /\ last.crate \in Cached

\* C6: git_commit of a registry or local crate returns None, returns no
\* error, and changes neither the cache nor the filesystem.
C6_GitCommitNoneForNonGit ==
    [][ (Called("git_commit") /\ last'.crate.kind \in {"Registry", "Local"})
          => /\ last'.commit = None
             /\ last'.res \notin Errors
             /\ UNCHANGED <<cache, remote, localSrc, dest>> ]_vars

C6_Witness ==
    /\ last.op = "git_commit" /\ last.crate.kind = "Registry"
    /\ cache[last.crate].state = "ok"
    /\ last.commit = None

\* The local crate's fetch and purge_from_cache return Ok and change nothing.
LocalFetchPurgeAreNoops ==
    ((Called("fetch") \/ Called("purge_from_cache")) /\ last'.crate.kind = "Local")
        => /\ last'.res = "Ok"
           /\ UNCHANGED <<cache, remote, localSrc, dest>>

\* C7 as stated: the local crate's fetch and purge are no-ops that succeed,
\* and its copy_source_to fails exactly when the source path is missing.
C7_Original ==
    [][ /\ LocalFetchPurgeAreNoops
        /\ (Called("copy_source_to") /\ last'.crate.kind = "Local")
            => ((last'.res # "Ok") <=> ~localSrc) ]_vars

\* C7 amended: the local crate's fetch and purge are no-ops that succeed; its
\* copy_source_to fails whenever the source path is missing, and with the path
\* present it fails only on a filesystem error: the removal of the existing
\* destination, or the writes of the copy.
C7_LocalBackend ==
    [][ /\ LocalFetchPurgeAreNoops
        /\ (Called("copy_source_to") /\ last'.crate.kind = "Local")
            => /\ ~localSrc => last'.res \in {"NotFound", "RemoveFailed"}
               /\ (localSrc /\ last'.res # "Ok") => last'.res \in {"RemoveFailed", "Io"}
               /\ (last'.res = "RemoveFailed") => (dest.exists /\ last'.removal = "failed")
       ]_vars

C7_Witness ==
    /\ last.op = "copy_source_to" /\ last.crate.kind = "Local"
    /\ last.res = "NotFound" /\ ~localSrc

\* C8: a successful copy_source_to of a git crate stages the remote's tree as
\* of the last fetch that succeeded, and a failed fetch leaves the cache entry
\* alone.
C8_CopyReflectsLastFetch ==
    [][ /\ (Called("copy_source_to") /\ last'.crate.kind = "Git" /\ last'.res = "Ok")
            => /\ fetched[last'.crate] # None
               /\ dest' = Dir(Tree(last'.crate, fetched[last'.crate]))
        /\ (Called("fetch") /\ last'.crate.kind = "Git" /\ last'.res # "Ok")
            => /\ cache' = cache
               /\ fetched' = fetched ]_vars

C8_Witness ==
    /\ last.op = "copy_source_to" /\ last.crate.kind = "Git" /\ last.res = "Ok"
    /\ fetched[last.crate] > 0
    /\ fetched[last.crate] < remote

\* C9: when the removal of an existing destination fails, copy_source_to
\* returns that error without calling the backend and writes nothing; when
\* the destination does not exist, nothing is removed and the backend is called.
C9_RemovalFailureStopsCopy ==
    [][ Called("copy_source_to")
          => /\ (dest.exists /\ last'.removal = "failed")
                  => /\ last'.res = "RemoveFailed"
                     /\ ~last'.dispatched
                     /\ dest'.exists /\ dest'.files \subseteq dest.files
             /\ ~dest.exists
                  => /\ last'.removal = "skipped"
                     /\ last'.dispatched
             /\ last'.removal = "failed" => dest.exists ]_vars

C9_Witness ==
    /\ last.op = "copy_source_to" /\ last.removal = "failed"
    /\ Source(last.crate) # {}
    /\ dest.files # {}

\* C10 as stated: a failed copy_source_to never leaves the files staged
\* earlier in place.
C10_Original ==
    [][ (Called("copy_source_to") /\ last'.res # "Ok" /\ dest.exists)
          => (dest.files \ Source(last'.crate)) \cap dest'.files = {} ]_vars

\* C10 amended: copy_source_to clears the destination before the backend
\* copy, so a call on an existing destination that fails for another reason
\* than the removal failing returns an error with the removal done and none of
\* the earlier files left (when nothing is cached, no file at all).
C10_FailedCopyClearsDestination ==
    [][ (/\ Called("copy_source_to") /\ dest.exists
         /\ last'.res \notin {"Ok", "RemoveFailed"})
          => /\ last'.res \in Errors
             /\ last'.removal = "done"
             /\ (dest.files \ Source(last'.crate)) \cap dest'.files = {}
             /\ last'.res = "NotCached" => dest'.files = {} ]_vars

C10_Witness ==
    /\ last.op = "copy_source_to" /\ last.res = "NotCached"
    /\ last.removal = "done" /\ last.foreign
    /\ dest.files = {}

====
